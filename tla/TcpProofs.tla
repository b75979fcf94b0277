------------------------------ MODULE TcpProofs ------------------------------
(* Proofs about TcpSink, for every number of retries, connections and      *)
(* events: the frames a peer reads are in order and whole, and the sink    *)
(* implements SinkSpec.                                                    *)
EXTENDS TcpSink, TLAPS

-----------------------------------------------------------------------------
(* Frames and streams.                                                     *)

\* The events of a stream, by their places.
LEMMA EventsByPlace ==
  ASSUME NEW s \in Seq(Frames), NEW e
  PROVE  e \in EventsIn(s) <=>
           \E i \in 1 .. Len(s) : s[i].form # "part" /\ s[i].event = e
<1>1. DOMAIN s = 1 .. Len(s)
  OBVIOUS
<1>. QED
  BY <1>1 DEF EventsIn, Range

\* Streams carry events of the program.
LEMMA EventsInType ==
  ASSUME NEW s \in Seq(Frames) PROVE EventsIn(s) \subseteq Events
<1>. SUFFICES ASSUME NEW e \in EventsIn(s) PROVE e \in Events
  OBVIOUS
<1>1. PICK i \in 1 .. Len(s) : s[i].event = e
  BY EventsByPlace
<1>2. s[i] \in Frames
  OBVIOUS
<1>. QED
  BY <1>1, <1>2 DEF Frames

\* An empty stream has no events.
LEMMA EventsInNothing == EventsIn(<<>>) = {}
BY DEF EventsIn, Range

\* A stream in two pieces has the events of both.
LEMMA EventsInConcat ==
  ASSUME NEW s \in Seq(Frames), NEW t \in Seq(Frames)
  PROVE  EventsIn(s \o t) = EventsIn(s) \union EventsIn(t)
<1>. DEFINE st == s \o t
<1>1. /\ st \in Seq(Frames) /\ Len(st) = Len(s) + Len(t)
      /\ Len(s) \in Nat /\ Len(t) \in Nat
      /\ \A i \in 1 .. Len(s) : st[i] = s[i]
      /\ \A i \in 1 .. Len(t) : st[Len(s) + i] = t[i]
  OBVIOUS
<1>. HIDE DEF st
<1>2. ASSUME NEW e \in EventsIn(st) PROVE e \in EventsIn(s) \union EventsIn(t)
  <2>1. PICK i \in 1 .. Len(st) : st[i].form # "part" /\ st[i].event = e
    BY <1>1, <1>2, EventsByPlace
  <2>2. CASE i <= Len(s)
    BY <1>1, <2>1, <2>2, EventsByPlace
  <2>3. CASE i > Len(s)
    <3>1. PICK j \in 1 .. Len(t) : i = Len(s) + j
      <4>1. i - Len(s) \in 1 .. Len(t) /\ i = Len(s) + (i - Len(s))
        BY <1>1, <2>1, <2>3
      <4>. QED
        BY <4>1
    <3>2. st[i] = t[j]
      BY <1>1, <3>1
    <3>. QED
      BY <2>1, <3>2, EventsByPlace
  <2>. QED
    BY <1>1, <2>2, <2>3
<1>3. ASSUME NEW e \in EventsIn(s) PROVE e \in EventsIn(st)
  BY <1>1, <1>3, EventsByPlace
<1>4. ASSUME NEW e \in EventsIn(t) PROVE e \in EventsIn(st)
  <2>1. PICK i \in 1 .. Len(t) : t[i].form # "part" /\ t[i].event = e
    BY <1>4, EventsByPlace
  <2>2. Len(s) + i \in 1 .. Len(st) /\ st[Len(s) + i] = t[i]
    BY <1>1, <2>1
  <2>. QED
    BY <1>1, <2>1, <2>2, EventsByPlace
<1>. QED
  BY <1>2, <1>3, <1>4 DEF st

\* One frame carries its event, or nothing when it was sent in part.
LEMMA EventsInOne ==
  ASSUME NEW f \in Frames
  PROVE  EventsIn(<<f>>) = IF f.form = "part" THEN {} ELSE {f.event}
<1>1. Range(<<f>>) = {f}
  BY DEF Range
<1>. QED
  BY <1>1 DEF EventsIn

\* The two kinds of frame that an event becomes.
LEMMA FrameTypes ==
  ASSUME NEW e \in Events
  PROVE  /\ Frame(e) \in Frames /\ Frame(e).event = e /\ Frame(e).form # "part"
         /\ Part(e) \in Frames /\ Part(e).event = e /\ Part(e).form = "part"
BY DEF Frame, Part, Frames

\* Handing a frame to the kernel puts it at the end of the stream.
LEMMA AppendStream ==
  ASSUME NEW s \in Seq(Frames), NEW t \in Seq(Frames), NEW f \in Frames
  PROVE  /\ Append(t, f) \in Seq(Frames)
         /\ s \o Append(t, f) = (s \o t) \o <<f>>
OBVIOUS

\* Delivering a frame leaves the stream as it is.
LEMMA DeliverStream ==
  ASSUME NEW s \in Seq(Frames), NEW t \in Seq(Frames), t # <<>>
  PROVE  /\ Append(s, Head(t)) \in Seq(Frames) /\ Tail(t) \in Seq(Frames)
         /\ Append(s, Head(t)) \o Tail(t) = s \o t
OBVIOUS
-----------------------------------------------------------------------------
(* Type correctness.                                                       *)

\* A call of send is about an event.
Calling == call = "send" => sent # 0

NetTypes ==
  /\ flight \in [Conns -> Seq(Frames)] /\ got \in [Conns -> Seq(Frames)]
  /\ broken \in SUBSET Conns /\ lost \in SUBSET Events

\* What one frame does to the network.
LEMMA HandOverTypes ==
  ASSUME NetTypes, NEW c \in Conns, NEW f \in Frames, HandOver(c, f)
  PROVE  NetTypes'
<1>1. CASE c \in broken
  <2>1. EventsIn(<<f>>) \subseteq Events
    <3>1. <<f>> \in Seq(Frames)
      OBVIOUS
    <3>. QED
      BY <3>1, EventsInType
  <2>. QED
    BY <1>1, <2>1 DEF HandOver, NetTypes
<1>2. CASE c \notin broken
  <2>1. Append(flight[c], f) \in Seq(Frames)
    BY DEF NetTypes
  <2>. QED
    BY <1>2, <2>1 DEF HandOver, NetTypes
<1>. QED
  BY <1>1, <1>2

\* During send the event is one of the program's.
LEMMA CurrentEvent ==
  ASSUME TypeOK, Calling, call = "send" PROVE sent \in Events
BY TcpAssumption DEF TypeOK, Calling, Events

\* So is what a failed attempt does.
LEMMA AttemptTypes ==
  ASSUME TypeOK, Calling, AttemptFails PROVE NetTypes'
<1>1. NetTypes /\ sent \in Events
  BY CurrentEvent DEF TypeOK, NetTypes, AttemptFails
<1>2. CASE UNCHANGED net
  BY <1>1, <1>2 DEF NetTypes, net
<1>3. CASE sock # 0 /\ HandOver(sock, Part(sent))
  <2>1. sock \in Conns
    BY <1>3, TcpAssumption DEF TypeOK, Conns
  <2>. QED
    BY <1>1, <1>3, <2>1, FrameTypes, HandOverTypes
<1>. QED
  BY <1>2, <1>3 DEF AttemptFails

\* Every step keeps the types.
LEMMA StepTypes ==
  ASSUME TypeOK, Calling, [Next]_vars
  PROVE  TypeOK' /\ Calling'
<1>. USE TcpAssumption DEF Calling
<1>n. NetTypes
  BY DEF TypeOK, NetTypes
<1>1. CASE Send
  BY <1>1 DEF Send, net, TypeOK
<1>2. CASE Connect
  BY <1>2 DEF Connect, net, TypeOK
<1>3. CASE SendAll
  <2>1. sent \in Events /\ sock \in Conns
    BY <1>3, CurrentEvent DEF SendAll, TypeOK, Conns
  <2>2. NetTypes'
    BY <1>3, <1>n, <2>1, FrameTypes, HandOverTypes DEF SendAll
  <2>3. result' \in BOOLEAN
    BY <1>3 DEF SendAll, Return
  <2>. QED
    BY <1>3, <2>1, <2>2, <2>3 DEF SendAll, Return, TypeOK, NetTypes
<1>4. CASE Retry
  <2>1. NetTypes'
    BY <1>4, AttemptTypes DEF Retry
  <2>. QED
    BY <1>4, <2>1 DEF Retry, TypeOK, NetTypes
<1>5. CASE GiveUp
  <2>1. NetTypes'
    BY <1>5, AttemptTypes DEF GiveUp
  <2>2. result' \in BOOLEAN
    BY <1>5 DEF GiveUp, Return
  <2>. QED
    BY <1>5, <2>1, <2>2 DEF GiveUp, Return, TypeOK, NetTypes
<1>6. CASE CloseOrCrash
  <2>1. NetTypes'
    <3>1. CASE call = "send"
      BY <1>6, <3>1, AttemptTypes DEF CloseOrCrash
    <3>2. CASE call # "send"
      BY <1>6, <1>n, <3>2 DEF CloseOrCrash, net, NetTypes
    <3>. QED
      BY <3>1, <3>2
  <2>2. result' \in BOOLEAN
    BY <1>6 DEF CloseOrCrash, Return
  <2>. QED
    BY <1>6, <2>1, <2>2 DEF CloseOrCrash, Return, TypeOK, NetTypes
<1>7. ASSUME NEW c \in Conns, Deliver(c) PROVE TypeOK' /\ Calling'
  <2>1. Append(got[c], Head(flight[c])) \in Seq(Frames) /\ Tail(flight[c]) \in Seq(Frames)
    BY <1>7, DeliverStream DEF Deliver, TypeOK
  <2>. QED
    BY <1>7, <2>1 DEF Deliver, TypeOK
<1>8. ASSUME NEW c \in Conns, Break(c) PROVE TypeOK' /\ Calling'
  <2>1. EventsIn(flight[c]) \subseteq Events /\ <<>> \in Seq(Frames)
    BY EventsInType DEF TypeOK
  <2>. QED
    BY <1>8, <2>1 DEF Break, TypeOK
<1>9. CASE UNCHANGED vars
  BY <1>9 DEF vars, TypeOK
<1>. QED
  BY <1>1, <1>2, <1>3, <1>4, <1>5, <1>6, <1>7, <1>8, <1>9 DEF Next, Step

\* The initial state has the types.
LEMMA InitTypes == Init => TypeOK /\ Calling
<1>. SUFFICES ASSUME Init PROVE TypeOK /\ Calling
  OBVIOUS
<1>1. result \in BOOLEAN
  BY DEF Init
<1>2. flight \in [Conns -> Seq(Frames)] /\ got \in [Conns -> Seq(Frames)]
  BY DEF Init
<1>. QED
  BY <1>1, <1>2, TcpAssumption DEF Init, TypeOK, Calling

\* The variables have their types: a frame on a connection is a whole, a cut or a
\* partial event of the program, and attempts stays within max_retries.
THEOREM TypeCorrect == Spec => []TypeOK
<1>1. TypeOK /\ Calling /\ [Next]_vars => (TypeOK /\ Calling)'
  BY StepTypes
<1>. QED
  BY <1>1, InitTypes, PTL DEF Spec

-----------------------------------------------------------------------------
(* What the steps do to the streams.                                       *)

\* Streams are sequences of frames.
LEMMA StreamTypes ==
  ASSUME NetTypes, NEW c \in Conns PROVE Stream(c) \in Seq(Frames)
BY DEF NetTypes, Stream

\* A frame that is handed over goes to the end of its stream, or is lost.
LEMMA HandOverStreams ==
  ASSUME NetTypes, NEW c \in Conns, NEW f \in Frames, HandOver(c, f)
  PROVE  \/ /\ lost' = lost \union EventsIn(<<f>>)
            /\ \A d \in Conns : Stream(d)' = Stream(d)
         \/ /\ lost' = lost
            /\ Stream(c)' = Stream(c) \o <<f>>
            /\ \A d \in Conns \ {c} : Stream(d)' = Stream(d)
<1>1. CASE c \in broken
  BY <1>1 DEF HandOver, Stream
<1>2. CASE c \notin broken
  <2>1. got[c] \in Seq(Frames) /\ flight[c] \in Seq(Frames)
    BY DEF NetTypes
  <2>2. /\ flight'[c] = Append(flight[c], f) /\ got' = got /\ lost' = lost
        /\ \A d \in Conns \ {c} : flight'[d] = flight[d]
    BY <1>2 DEF HandOver, NetTypes
  <2>3. Stream(c)' = Stream(c) \o <<f>>
    <3>1. got[c] \o Append(flight[c], f) = (got[c] \o flight[c]) \o <<f>>
      BY <2>1, AppendStream
    <3>. QED
      BY <2>2, <3>1 DEF Stream
  <2>. QED
    BY <2>2, <2>3 DEF Stream
<1>. QED
  BY <1>1, <1>2

\* A delivery leaves the streams alone.
LEMMA DeliverStreams ==
  ASSUME NetTypes, NEW c \in Conns, Deliver(c)
  PROVE  \A d \in Conns : Stream(d)' = Stream(d)
<1>1. got[c] \in Seq(Frames) /\ flight[c] \in Seq(Frames) /\ flight[c] # <<>>
  BY DEF NetTypes, Deliver
<1>2. /\ got'[c] = Append(got[c], Head(flight[c])) /\ flight'[c] = Tail(flight[c])
      /\ \A d \in Conns \ {c} : got'[d] = got[d] /\ flight'[d] = flight[d]
  BY DEF NetTypes, Deliver
<1>3. Stream(c)' = Stream(c)
  BY <1>1, <1>2, DeliverStream DEF Stream
<1>. QED
  BY <1>2, <1>3 DEF Stream

\* A broken connection keeps what the peer has read.
LEMMA BreakStreams ==
  ASSUME NetTypes, NEW c \in Conns, Break(c)
  PROVE  /\ Stream(c)' = got[c]
         /\ Stream(c) = got[c] \o flight[c]
         /\ got[c] \in Seq(Frames) /\ flight[c] \in Seq(Frames)
         /\ \A d \in Conns \ {c} : Stream(d)' = Stream(d)
<1>1. got[c] \in Seq(Frames) /\ flight[c] \in Seq(Frames)
  BY DEF NetTypes
<1>2. /\ got' = got /\ flight'[c] = <<>>
      /\ \A d \in Conns \ {c} : flight'[d] = flight[d]
  BY DEF NetTypes, Break
<1>3. got[c] \o <<>> = got[c]
  BY <1>1
<1>. QED
  BY <1>1, <1>2, <1>3 DEF Stream

-----------------------------------------------------------------------------
(* The refinement.                                                         *)

\* What counts as delivered, and the argument of a call.
Delivered == lost \union UNION {EventsIn(Stream(c)) : c \in Conns}
Arg == IF call = "send" THEN {sent} ELSE {}

\* A frame that is handed over delivers its event, unless it is sent in part.
LEMMA HandOverDelivers ==
  ASSUME NetTypes, NEW c \in Conns, NEW f \in Frames, HandOver(c, f)
  PROVE  Delivered' = Delivered \union EventsIn(<<f>>)
<1>1. CASE /\ lost' = lost \union EventsIn(<<f>>)
           /\ \A d \in Conns : Stream(d)' = Stream(d)
  <2>1. {EventsIn(Stream(d)) : d \in Conns}' = {EventsIn(Stream(d)) : d \in Conns}
    BY <1>1 DEF EventsIn
  <2>. QED
    BY <1>1, <2>1 DEF Delivered
<1>2. CASE /\ lost' = lost
           /\ Stream(c)' = Stream(c) \o <<f>>
           /\ \A d \in Conns \ {c} : Stream(d)' = Stream(d)
  <2>1. EventsIn(Stream(c))' = EventsIn(Stream(c)) \union EventsIn(<<f>>)
    <3>1. Stream(c) \in Seq(Frames) /\ <<f>> \in Seq(Frames)
      BY StreamTypes
    <3>. QED
      BY <1>2, <3>1, EventsInConcat DEF EventsIn
  <2>2. \A d \in Conns \ {c} : EventsIn(Stream(d))' = EventsIn(Stream(d))
    BY <1>2 DEF EventsIn
  <2>. QED
    BY <1>2, <2>1, <2>2 DEF Delivered
<1>. QED
  BY <1>1, <1>2, HandOverStreams

\* A failed attempt delivers nothing.
LEMMA AttemptDelivers ==
  ASSUME TypeOK, Calling, AttemptFails PROVE Delivered' = Delivered
<1>1. NetTypes /\ sent \in Events
  BY CurrentEvent DEF TypeOK, NetTypes, AttemptFails
<1>2. CASE UNCHANGED net
  BY <1>2 DEF net, Delivered, Stream, EventsIn
<1>3. CASE sock # 0 /\ HandOver(sock, Part(sent))
  <2>1. sock \in Conns
    BY <1>3, TcpAssumption DEF TypeOK, Conns
  <2>. QED
    BY <1>1, <1>3, <2>1, FrameTypes, EventsInOne, HandOverDelivers
<1>. QED
  BY <1>2, <1>3 DEF AttemptFails

\* Reading delivers nothing new, and breaking loses nothing that counted.
LEMMA NetworkDelivers ==
  ASSUME NetTypes, NEW c \in Conns, Deliver(c) \/ Break(c)
  PROVE  Delivered' = Delivered
<1>1. CASE Deliver(c)
  <2>1. \A d \in Conns : EventsIn(Stream(d))' = EventsIn(Stream(d))
    BY <1>1, DeliverStreams DEF EventsIn
  <2>. QED
    BY <1>1, <2>1 DEF Delivered, Deliver
<1>2. CASE Break(c)
  <2>1. EventsIn(Stream(c)) = EventsIn(Stream(c))' \union EventsIn(flight[c])
    <3>1. EventsIn(got[c] \o flight[c]) = EventsIn(got[c]) \union EventsIn(flight[c])
      BY <1>2, BreakStreams, EventsInConcat
    <3>2. EventsIn(Stream(c))' = EventsIn(got[c])
      BY <1>2, BreakStreams DEF EventsIn
    <3>. QED
      BY <1>2, BreakStreams, <3>1, <3>2
  <2>2. \A d \in Conns \ {c} : EventsIn(Stream(d))' = EventsIn(Stream(d))
    BY <1>2, BreakStreams DEF EventsIn
  <2>3. lost' = lost \union EventsIn(flight[c])
    BY <1>2 DEF Break
  <2>. QED
    BY <2>1, <2>2, <2>3 DEF Delivered
<1>. QED
  BY <1>1, <1>2

\* Every step is a step of the promised sink, or one that does not concern it.
LEMMA StepPromised ==
  ASSUME TypeOK, Calling, [Next]_vars
  PROVE  [Promise!SpecNext]_(Promise!specVars)
<1>. USE DEF Promise!specVars, Promise!sinkVars, Promise!SpecNext
<1>n. NetTypes
  BY DEF TypeOK, NetTypes
<1>t. CASE /\ Delivered' = Delivered /\ UNCHANGED <<call, sent, result>>
  BY <1>t DEF Delivered
<1>1. CASE Send
  <2>1. Delivered' = Delivered
    BY <1>1 DEF Send, net, Delivered, Stream, EventsIn
  <2>2. sent' \in Events
    BY <1>1, TcpAssumption DEF Send, TypeOK, Events
  <2>. QED
    BY <1>1, <2>1, <2>2 DEF Send, Delivered, Promise!BeginSend
<1>2. CASE Connect
  <2>1. Delivered' = Delivered
    BY <1>2 DEF Connect, net, Delivered, Stream, EventsIn
  <2>. QED
    BY <1>2, <1>t, <2>1 DEF Connect
<1>3. CASE SendAll
  <2>1. sent \in Events /\ sock \in Conns
    BY <1>3, CurrentEvent, TcpAssumption DEF SendAll, TypeOK, Conns
  <2>2. Delivered' = Delivered \union {sent}
    <3>1. EventsIn(<<Frame(sent)>>) = {sent}
      BY <2>1, FrameTypes, EventsInOne
    <3>. QED
      BY <1>3, <1>n, <2>1, <3>1, FrameTypes, HandOverDelivers DEF SendAll
  <2>3. call = "send" /\ call' = "none" /\ result' = TRUE
    BY <1>3 DEF SendAll, Return
  <2>4. Promise!SendOk(sent)
    <3>1. {} \in {{} \union {sent}, {sent}, {}} /\ ({} \union {sent}) \ {} = {sent}
      OBVIOUS
    <3>. QED
      BY <2>2, <3>1 DEF Delivered, Promise!SendOk
  <2>. QED
    BY <2>3, <2>4 DEF Promise!ReturnTrue, Promise!Return
<1>4. CASE Retry
  <2>1. Delivered' = Delivered
    BY <1>4, AttemptDelivers DEF Retry
  <2>. QED
    BY <1>4, <1>t, <2>1 DEF Retry
<1>5. CASE GiveUp
  <2>1. Delivered' = Delivered
    BY <1>5, AttemptDelivers DEF GiveUp
  <2>2. call = "send" /\ call' = "none" /\ result' = FALSE
    BY <1>5 DEF GiveUp, AttemptFails, Return
  <2>3. Promise!CallFails(Arg)
    <3>1. {} \in SUBSET ({} \union Arg) /\ Delivered' = Delivered \union {}
      BY <2>1
    <3>. QED
      BY <3>1 DEF Delivered, Promise!CallFails
  <2>. QED
    BY <2>2, <2>3 DEF Arg, Promise!ReturnFalse, Promise!Return
<1>6. CASE CloseOrCrash
  <2>1. Delivered' = Delivered
    <3>1. CASE call = "send"
      BY <1>6, <3>1, AttemptDelivers DEF CloseOrCrash
    <3>2. CASE call # "send"
      BY <1>6, <3>2 DEF CloseOrCrash, net, Delivered, Stream, EventsIn
    <3>. QED
      BY <3>1, <3>2
  <2>. QED
    BY <1>6, <2>1
       DEF CloseOrCrash, Return, Delivered,
           Promise!ProcessDies, Promise!SinkCrash, Promise!Return
<1>7. ASSUME NEW c \in Conns, Deliver(c) \/ Break(c)
      PROVE  [Promise!SpecNext]_(Promise!specVars)
  <2>1. UNCHANGED <<call, sent, result>>
    BY <1>7 DEF Deliver, Break
  <2>. QED
    BY <1>7, <1>n, <1>t, <2>1, NetworkDelivers
<1>8. CASE UNCHANGED vars
  <2>1. Delivered' = Delivered
    BY <1>8 DEF vars, Delivered, Stream, EventsIn
  <2>. QED
    BY <1>8, <1>t, <2>1 DEF vars
<1>. QED
  BY <1>1, <1>2, <1>3, <1>4, <1>5, <1>6, <1>7, <1>8 DEF Next, Step

\* TcpSink implements SinkSpec, whatever the network does: a True from send is
\* only given for an event the kernel has taken whole.
THEOREM Refinement == Spec => KeepsPromise
<1>1. Init => Promise!SpecInit
  <2>. SUFFICES ASSUME Init PROVE Promise!SpecInit
    OBVIOUS
  <2>1. \A c \in Conns : EventsIn(Stream(c)) = {}
    <3>1. <<>> \o <<>> = <<>>
      OBVIOUS
    <3>. QED
      BY <3>1, EventsInNothing DEF Init, Stream
  <2>. QED
    BY <2>1 DEF Init, Promise!SpecInit, Promise!SinkInit
<1>2. TypeOK /\ Calling /\ [Next]_vars => (TypeOK /\ Calling)'
  BY StepTypes
<1>3. TypeOK /\ Calling /\ [Next]_vars => [Promise!SpecNext]_(Promise!specVars)
  BY StepPromised
<1>. QED
  BY <1>1, <1>2, <1>3, InitTypes, PTL DEF Spec, KeepsPromise, Promise!SinkPromise

-----------------------------------------------------------------------------
(* The order of the frames.                                                *)

\* The frame y of connection d may follow the frame x of connection c.
MayFollow(x, c, y, d) ==
  x.event < y.event \/ (x.event = y.event /\ x.form = "part" /\ c # d)

\* The connection in use is the last one made, and those to come are empty.
LastInUse ==
  /\ sock # 0 => sock = opened
  /\ \A c \in Conns : c > opened => Stream(c) = <<>>

\* The event of the call in progress is on other connections, in part, or nowhere.
NotYetSent ==
  \A c \in Conns : \A i \in 1 .. Len(Stream(c)) :
    /\ Stream(c)[i].event <= sent
    /\ call = "send" /\ Stream(c)[i].event = sent =>
         Stream(c)[i].form = "part" /\ c # sock

InOrder ==
  \A c, d \in Conns :
    \A i \in 1 .. Len(Stream(c)), j \in 1 .. Len(Stream(d)) :
      c < d \/ (c = d /\ i < j) => MayFollow(Stream(c)[i], c, Stream(d)[j], d)

StreamInv == LastInUse /\ NotYetSent /\ InOrder

\* Streams only lose frames at their ends in a step that the three facts survive.
LEMMA ShorterStreams ==
  ASSUME NetTypes, NetTypes', StreamInv,
         \A c \in Conns :
           /\ Len(Stream(c)') <= Len(Stream(c))
           /\ \A i \in 1 .. Len(Stream(c)') : Stream(c)'[i] = Stream(c)[i],
         UNCHANGED <<sock, opened, sent, call>>
  PROVE  StreamInv'
<1>1. \A c \in Conns : Stream(c) \in Seq(Frames) /\ Stream(c)' \in Seq(Frames)
  BY StreamTypes DEF NetTypes, Stream
<1>2. LastInUse'
  BY <1>1 DEF StreamInv, LastInUse
<1>3. \A c \in Conns : 1 .. Len(Stream(c)') \subseteq 1 .. Len(Stream(c))
  BY <1>1
<1>4. NotYetSent'
  BY <1>1, <1>3 DEF StreamInv, NotYetSent
<1>5. InOrder'
  BY <1>1, <1>3 DEF StreamInv, InOrder, MayFollow
<1>. QED
  BY <1>2, <1>4, <1>5 DEF StreamInv

\* A frame of the current event may go to the end of the connection in use: it is
\* the last of all, and what it follows is older or the rest of a failed attempt.
LEMMA LongerStream ==
  ASSUME TypeOK, Calling, StreamInv, call = "send",
         NEW k \in Conns, k = sock,
         NEW f \in Frames, f \in {Frame(sent), Part(sent)}, HandOver(k, f)
  PROVE  /\ InOrder'
         /\ \A c \in Conns : c > opened => Stream(c)' = <<>>
         /\ \A c \in Conns : \A i \in 1 .. Len(Stream(c)') :
              /\ Stream(c)'[i].event <= sent
              /\ c # k /\ Stream(c)'[i].event = sent => Stream(c)'[i].form = "part"
              /\ f = Part(sent) /\ Stream(c)'[i].event = sent =>
                   Stream(c)'[i].form = "part"
<1>1. /\ NetTypes /\ sent \in Events /\ k = opened /\ f.event = sent
  BY CurrentEvent, FrameTypes, TcpAssumption
     DEF TypeOK, NetTypes, Conns, StreamInv, LastInUse
<1>t. sent \in Nat /\ opened \in Nat /\ Conns \subseteq Nat
  BY TcpAssumption DEF TypeOK, Conns
<1>2. \A c \in Conns : Stream(c) \in Seq(Frames)
  BY <1>1, StreamTypes
<1>3. CASE \A d \in Conns : Stream(d)' = Stream(d)
  <2>1. InOrder'
    BY <1>3 DEF StreamInv, InOrder
  <2>. QED
    BY <1>3, <2>1 DEF StreamInv, LastInUse, NotYetSent
<1>4. CASE /\ Stream(k)' = Stream(k) \o <<f>>
           /\ \A d \in Conns \ {k} : Stream(d)' = Stream(d)
  <2>. DEFINE n == Len(Stream(k))
  <2>1. /\ n \in Nat /\ Len(Stream(k)') = n + 1
        /\ Stream(k)'[n + 1] = f
        /\ \A i \in 1 .. n : Stream(k)'[i] = Stream(k)[i]
    BY <1>1, <1>2, <1>4
  <2>2. \A c \in Conns : \A i \in 1 .. Len(Stream(c)') :
          \/ c = k /\ i = n + 1 /\ Stream(c)'[i] = f
          \/ i \in 1 .. Len(Stream(c)) /\ Stream(c)'[i] = Stream(c)[i]
    <3>. SUFFICES ASSUME NEW c \in Conns, NEW i \in 1 .. Len(Stream(c)')
                  PROVE  \/ c = k /\ i = n + 1 /\ Stream(c)'[i] = f
                         \/ i \in 1 .. Len(Stream(c)) /\ Stream(c)'[i] = Stream(c)[i]
      OBVIOUS
    <3>1. CASE c # k
      BY <1>4, <3>1
    <3>2. CASE c = k
      <4>1. i \in 1 .. n + 1 /\ Stream(c)' = Stream(k)'
        BY <2>1, <3>2 DEF Stream
      <4>. QED
        BY <2>1, <3>2, <4>1
    <3>. QED
      BY <3>1, <3>2
  <2>. HIDE DEF n
  <2>3. \A c \in Conns : c > opened => Stream(c)' = <<>>
    BY <1>1, <1>4, <1>t DEF StreamInv, LastInUse
  <2>4. \A c \in Conns : \A i \in 1 .. Len(Stream(c)) :
          Stream(c)[i] \in Frames /\ Stream(c)[i].event \in Nat
    <3>1. \A c \in Conns : \A i \in 1 .. Len(Stream(c)) : Stream(c)[i] \in Frames
      BY <1>2
    <3>. QED
      BY <3>1, TcpAssumption DEF Frames, Events
  <2>5. \A c \in Conns : \A i \in 1 .. Len(Stream(c)) :
          /\ Stream(c)[i].event <= sent
          /\ Stream(c)[i].event = sent => Stream(c)[i].form = "part" /\ c # k
    BY DEF StreamInv, NotYetSent
  <2>6. InOrder'
    <3>. SUFFICES ASSUME NEW c \in Conns, NEW d \in Conns,
                         NEW i \in 1 .. Len(Stream(c)'), NEW j \in 1 .. Len(Stream(d)'),
                         c < d \/ (c = d /\ i < j)
                  PROVE  MayFollow(Stream(c)'[i], c, Stream(d)'[j], d)
      BY DEF InOrder, MayFollow
    <3>1. ~(c = k /\ i = n + 1)
      <4>. SUFFICES ASSUME c = k, i = n + 1 PROVE FALSE
        OBVIOUS
      <4>1. CASE c < d
        <5>1. Stream(d)' = <<>> /\ Len(Stream(d)') = 0
          BY <1>1, <1>t, <2>3, <4>1
        <5>. QED
          BY <5>1
      <4>2. CASE c = d /\ i < j
        <5>1. Len(Stream(d)') = n + 1
          BY <2>1, <4>2 DEF Stream
        <5>. QED
          BY <2>1, <4>2, <5>1
      <4>. QED
        BY <4>1, <4>2
    <3>2. i \in 1 .. Len(Stream(c)) /\ Stream(c)'[i] = Stream(c)[i]
      BY <2>2, <3>1
    <3>3. CASE d = k /\ j = n + 1 /\ Stream(d)'[j] = f
      BY <1>1, <1>t, <2>4, <2>5, <3>2, <3>3 DEF MayFollow
    <3>4. CASE j \in 1 .. Len(Stream(d)) /\ Stream(d)'[j] = Stream(d)[j]
      BY <3>2, <3>4 DEF StreamInv, InOrder
    <3>. QED
      BY <2>2, <3>3, <3>4
  <2>7. ASSUME NEW c \in Conns, NEW i \in 1 .. Len(Stream(c)')
        PROVE  /\ Stream(c)'[i].event <= sent
               /\ c # k /\ Stream(c)'[i].event = sent => Stream(c)'[i].form = "part"
               /\ f = Part(sent) /\ Stream(c)'[i].event = sent =>
                    Stream(c)'[i].form = "part"
    <3>1. CASE c = k /\ i = n + 1 /\ Stream(c)'[i] = f
      BY <1>1, <1>t, <3>1, FrameTypes
    <3>2. CASE i \in 1 .. Len(Stream(c)) /\ Stream(c)'[i] = Stream(c)[i]
      BY <2>5, <3>2
    <3>. QED
      BY <2>2, <3>1, <3>2
  <2>. QED
    BY <2>3, <2>6, <2>7
<1>. QED
  <2>1. \/ \A d \in Conns : Stream(d)' = Stream(d)
        \/ /\ Stream(k)' = Stream(k) \o <<f>>
           /\ \A d \in Conns \ {k} : Stream(d)' = Stream(d)
    BY <1>1, HandOverStreams
  <2>. QED
    BY <1>3, <1>4, <2>1

\* After a failed attempt the connection is dropped, and its event is only there
\* in part: a retry takes another connection.
LEMMA AttemptInv ==
  ASSUME TypeOK, Calling, StreamInv, AttemptFails, sock' = 0,
         UNCHANGED <<opened, sent>>
  PROVE  StreamInv'
<1>1. NetTypes /\ sent \in Events /\ call = "send"
  BY CurrentEvent DEF TypeOK, NetTypes, AttemptFails
<1>2. CASE UNCHANGED net
  <2>1. \A c \in Conns : Stream(c)' = Stream(c) /\ c # 0
    BY <1>2, TcpAssumption DEF net, Stream, Conns
  <2>2. InOrder'
    BY <2>1 DEF StreamInv, InOrder
  <2>. QED
    BY <1>1, <2>1, <2>2 DEF StreamInv, LastInUse, NotYetSent
<1>3. CASE sock # 0 /\ HandOver(sock, Part(sent))
  <2>1. \A c \in Conns : c # 0
    BY TcpAssumption DEF Conns
  <2>2. PICK k \in Conns : k = sock
    BY <1>3, TcpAssumption DEF TypeOK, Conns
  <2>3. /\ InOrder'
        /\ \A c \in Conns : c > opened => Stream(c)' = <<>>
        /\ \A c \in Conns : \A i \in 1 .. Len(Stream(c)') :
             /\ Stream(c)'[i].event <= sent
             /\ Stream(c)'[i].event = sent => Stream(c)'[i].form = "part"
    BY <1>1, <1>3, <2>2, FrameTypes, LongerStream
  <2>. QED
    BY <2>1, <2>3 DEF StreamInv, LastInUse, NotYetSent
<1>. QED
  BY <1>2, <1>3 DEF AttemptFails

\* Every step keeps the frames in order.
LEMMA StepStreams ==
  ASSUME TypeOK, Calling, TypeOK', StreamInv, [Next]_vars
  PROVE  StreamInv'
<1>n. NetTypes /\ NetTypes'
  BY DEF TypeOK, NetTypes
<1>t. sent \in Nat /\ opened \in Nat /\ Conns \subseteq Nat \ {0}
  BY TcpAssumption DEF TypeOK, Conns
<1>s. \A c \in Conns : Stream(c) \in Seq(Frames)
  BY <1>n, StreamTypes
<1>e. \A c \in Conns : \A i \in 1 .. Len(Stream(c)) : Stream(c)[i].event \in Nat
  <2>1. \A c \in Conns : \A i \in 1 .. Len(Stream(c)) : Stream(c)[i] \in Frames
    BY <1>s
  <2>. QED
    BY <2>1, TcpAssumption DEF Frames, Events
<1>1. CASE Send
  <2>1. \A c \in Conns : Stream(c)' = Stream(c)
    BY <1>1 DEF Send, net, Stream
  <2>2. InOrder'
    BY <2>1 DEF StreamInv, InOrder
  <2>3. NotYetSent'
    BY <1>1, <1>t, <1>e, <2>1 DEF Send, StreamInv, NotYetSent
  <2>. QED
    BY <1>1, <2>1, <2>2, <2>3 DEF Send, StreamInv, LastInUse
<1>2. CASE Connect
  <2>1. \A c \in Conns : Stream(c)' = Stream(c)
    BY <1>2 DEF Connect, net, Stream
  <2>2. InOrder'
    BY <2>1 DEF StreamInv, InOrder
  <2>3. LastInUse'
    BY <1>2, <1>t, <2>1 DEF Connect, StreamInv, LastInUse
  <2>4. \A c \in Conns : c = opened + 1 => Len(Stream(c)) = 0
    BY <1>t DEF StreamInv, LastInUse
  <2>5. NotYetSent'
    BY <1>2, <1>t, <1>e, <2>1, <2>4 DEF Connect, StreamInv, NotYetSent
  <2>. QED
    BY <2>2, <2>3, <2>5 DEF StreamInv
<1>3. CASE SendAll
  <2>1. PICK k \in Conns : k = sock
    BY <1>3, TcpAssumption DEF SendAll, TypeOK, Conns
  <2>2. Frame(sent) \in Frames /\ call = "send"
    BY <1>3, CurrentEvent, FrameTypes DEF SendAll
  <2>3. /\ InOrder'
        /\ \A c \in Conns : c > opened => Stream(c)' = <<>>
        /\ \A c \in Conns : \A i \in 1 .. Len(Stream(c)') : Stream(c)'[i].event <= sent
    BY <1>3, <2>1, <2>2, LongerStream DEF SendAll
  <2>. QED
    BY <1>3, <2>3 DEF SendAll, Return, StreamInv, LastInUse, NotYetSent
<1>4. CASE Retry
  BY <1>4, AttemptInv DEF Retry
<1>5. CASE GiveUp
  BY <1>5, AttemptInv DEF GiveUp
<1>6. CASE CloseOrCrash
  <2>1. CASE call = "send"
    BY <1>6, <2>1, AttemptInv DEF CloseOrCrash
  <2>2. CASE call # "send"
    <3>1. \A c \in Conns : Stream(c)' = Stream(c)
      BY <1>6, <2>2 DEF CloseOrCrash, net, Stream
    <3>2. InOrder'
      BY <3>1 DEF StreamInv, InOrder
    <3>3. call' = "none" /\ sock' = 0 /\ UNCHANGED <<opened, sent>>
      BY <1>6 DEF CloseOrCrash, Return
    <3>. QED
      BY <3>1, <3>2, <3>3 DEF StreamInv, LastInUse, NotYetSent
  <2>. QED
    BY <2>1, <2>2
<1>7. ASSUME NEW c \in Conns, Deliver(c) PROVE StreamInv'
  <2>1. \A d \in Conns : Stream(d)' = Stream(d) /\ Len(Stream(d)) \in Nat
    BY <1>n, <1>s, <1>7, DeliverStreams
  <2>2. UNCHANGED <<sock, opened, sent, call>>
    BY <1>7 DEF Deliver
  <2>. QED
    BY <1>n, <2>1, <2>2, ShorterStreams
<1>8. ASSUME NEW c \in Conns, Break(c) PROVE StreamInv'
  <2>1. /\ Len(got[c]) <= Len(got[c] \o flight[c])
        /\ \A i \in 1 .. Len(got[c]) : (got[c] \o flight[c])[i] = got[c][i]
    BY DEF TypeOK
  <2>2. \A d \in Conns :
          /\ Len(Stream(d)') <= Len(Stream(d))
          /\ \A i \in 1 .. Len(Stream(d)') : Stream(d)'[i] = Stream(d)[i]
    <3>. SUFFICES ASSUME NEW d \in Conns
                  PROVE  /\ Len(Stream(d)') <= Len(Stream(d))
                         /\ \A i \in 1 .. Len(Stream(d)') : Stream(d)'[i] = Stream(d)[i]
      OBVIOUS
    <3>1. CASE d = c
      <4>1. Stream(d)' = got[c] /\ Stream(d) = got[c] \o flight[c]
        BY <1>8, <1>n, <3>1, BreakStreams DEF Stream
      <4>. QED
        BY <2>1, <4>1
    <3>2. CASE d # c
      <4>1. Stream(d)' = Stream(d)
        BY <1>8, <1>n, <3>2, BreakStreams
      <4>2. Len(Stream(d)) \in Nat
        BY <1>s
      <4>. QED
        BY <4>1, <4>2
    <3>. QED
      BY <3>1, <3>2
  <2>3. UNCHANGED <<sock, opened, sent, call>>
    BY <1>8 DEF Break
  <2>. QED
    BY <1>n, <2>2, <2>3, ShorterStreams
<1>9. CASE UNCHANGED vars
  <2>1. \A d \in Conns : Stream(d)' = Stream(d)
    BY <1>9 DEF vars, Stream
  <2>2. \A d \in Conns : Len(Stream(d)) \in Nat
    BY <1>s
  <2>3. UNCHANGED <<sock, opened, sent, call>>
    BY <1>9 DEF vars
  <2>. QED
    BY <1>n, <2>1, <2>2, <2>3, ShorterStreams
<1>. QED
  BY <1>1, <1>2, <1>3, <1>4, <1>5, <1>6, <1>7, <1>8, <1>9 DEF Next, Step

\* In every state the frames of all connections, read one connection after the
\* other, are in order, and only an event sent in part is there again.
THEOREM WholeAndOrdered == Spec => []FramesWhole
<1>1. Init => StreamInv
  <2>. SUFFICES ASSUME Init PROVE StreamInv
    OBVIOUS
  <2>1. \A c \in Conns : Stream(c) = <<>> /\ Len(Stream(c)) = 0
    BY DEF Init, Stream
  <2>. QED
    BY <2>1 DEF Init, StreamInv, LastInUse, NotYetSent, InOrder
<1>2. TypeOK /\ Calling /\ [Next]_vars => (TypeOK /\ Calling)'
  BY StepTypes
<1>3. TypeOK /\ Calling /\ TypeOK' /\ StreamInv /\ [Next]_vars => StreamInv'
  BY StepStreams
<1>4. TypeOK /\ StreamInv => FramesWhole
  <2>. SUFFICES ASSUME TypeOK, StreamInv PROVE FramesWhole
    OBVIOUS
  <2>1. ASSUME NEW x \in Conns \X (1 .. 2 * MaxSends), x[2] <= Len(Stream(x[1])),
               NEW y \in Conns \X (1 .. 2 * MaxSends), y[2] <= Len(Stream(y[1])),
               Before(x, y)
        PROVE  MayFollow(Stream(x[1])[x[2]], x[1], Stream(y[1])[y[2]], y[1])
    <3>1. /\ x[1] \in Conns /\ y[1] \in Conns
          /\ Stream(x[1]) \in Seq(Frames) /\ Stream(y[1]) \in Seq(Frames)
      BY StreamTypes DEF TypeOK, NetTypes
    <3>2. x[2] \in 1 .. Len(Stream(x[1])) /\ y[2] \in 1 .. Len(Stream(y[1]))
      BY <2>1, <3>1, TcpAssumption
    <3>. QED
      BY <2>1, <3>1, <3>2 DEF StreamInv, InOrder, Before
  <2>. QED
    BY <2>1 DEF FramesWhole, MayFollow
<1>. QED
  BY <1>1, <1>2, <1>3, <1>4, InitTypes, PTL DEF Spec
=============================================================================
