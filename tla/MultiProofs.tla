----------------------------- MODULE MultiProofs -----------------------------
(* Proofs about MultiSink, for any number of children, files and lines.    *)
EXTENDS MultiSink, TLAPS

-----------------------------------------------------------------------------
(* Type correctness.                                                       *)

\* A child keeps and delivers nothing but events.
LEMMA ChildTypes ==
  ASSUME TypeOK, NEW c \in Children, NEW P \in SUBSET Events, NEW D \in SUBSET Events,
         ChildBecomes(c, P, D)
  PROVE  /\ pending' \in [Children -> SUBSET Events]
         /\ delivered' \in [Children -> SUBSET Events]
         /\ pending'[c] = P /\ delivered'[c] = delivered[c] \union D
         /\ \A d \in Children \ {c} : pending'[d] = pending[d] /\ delivered'[d] = delivered[d]
BY DEF ChildBecomes, TypeOK

\* A line is only sent while there is one, and a file only flushed after its last.
CallInFile ==
  /\ call # "none" => file <= Files
  /\ call = "send" => line <= Lines
  /\ call = "flush" => line = Lines + 1

\* The event being handed over is one.
LEMMA HandedTypes ==
  ASSUME TypeOK, CallInFile
  PROVE  Handed \in SUBSET Events
BY MultiAssumption DEF TypeOK, CallInFile, Handed, Event, Events

\* The outcomes of asking a child.
LEMMA AskedTypes ==
  ASSUME TypeOK, CallInFile, NEW c \in Children, Accepts(c) \/ Refuses(c)
  PROVE  \E P, D \in SUBSET Events : ChildBecomes(c, P, D)
<1>1. pending[c] \in SUBSET Events /\ Handed \in SUBSET Events
  BY HandedTypes DEF TypeOK
<1>2. CASE Accepts(c)
  BY <1>1, <1>2 DEF Accepts
<1>3. CASE Refuses(c)
  BY <1>1, <1>3 DEF Refuses
<1>. QED
  BY <1>2, <1>3

\* Every step keeps the types.
LEMMA StepTypes ==
  ASSUME TypeOK, CallInFile, [Next]_vars
  PROVE  TypeOK' /\ CallInFile'
<1>. USE MultiAssumption DEF CallInFile
<1>1. CASE Call
  <2>1. ok' \in BOOLEAN
    BY <1>1 DEF Call
  <2>. QED
    BY <1>1, <2>1 DEF Call, TypeOK, Children
<1>2. CASE Returns
  BY <1>2 DEF Returns, TypeOK
<1>3. ASSUME NEW c \in Children, ChildTrue(c) \/ ChildFalse(c) \/ ChildRaises(c)
      PROVE  TypeOK' /\ CallInFile'
  <2>1. /\ pending' \in [Children -> SUBSET Events]
        /\ delivered' \in [Children -> SUBSET Events]
    BY <1>3, AskedTypes, ChildTypes DEF ChildTrue, ChildFalse, ChildRaises
  <2>2. ok' \in BOOLEAN
    BY <1>3 DEF ChildTrue, ChildFalse, ChildRaises, TypeOK
  <2>. QED
    BY <1>3, <2>1, <2>2
       DEF ChildTrue, ChildFalse, ChildRaises, Asked, TypeOK, Children
<1>4. CASE UNCHANGED vars
  BY <1>4 DEF vars, TypeOK
<1>. QED
  BY <1>1, <1>2, <1>3, <1>4 DEF Next

\* The initial state has the types.
LEMMA InitTypes == Init => TypeOK /\ CallInFile
<1>. SUFFICES ASSUME Init PROVE TypeOK /\ CallInFile
  OBVIOUS
<1>1. ok \in BOOLEAN
  BY DEF Init
<1>. QED
  BY <1>1, MultiAssumption DEF Init, TypeOK, CallInFile

\* The variables have their types, whatever the children answer.
THEOREM TypeCorrect == Spec => []TypeOK
<1>1. TypeOK /\ CallInFile /\ [Next]_vars => (TypeOK /\ CallInFile)'
  BY StepTypes
<1>. QED
  BY <1>1, InitTypes, PTL DEF Spec

-----------------------------------------------------------------------------
(* A healthy child has everything.                                         *)

\* What a child was handed is in its memory or at its destination.
Has(c) == pending[c] \union delivered[c]

\* Of the file in progress a healthy child has the lines gone by, and the line
\* in hand once its turn is over; once its turn to flush is over all lines have
\* reached its destination.
ChildKeepsUp(c) ==
  /\ Checkpointed \subseteq delivered[c]
  /\ \A l \in 1 .. Lines : l < line => <<file, l>> \in Has(c)
  /\ call = "send" /\ at > c => Event \in Has(c)
  /\ call = "flush" /\ at > c =>
       \A l \in 1 .. Lines : <<file, l>> \in delivered[c]

\* A healthy child has, or still buffers, every event handed out up to its turn.
LEMMA StepKeepsUp ==
  ASSUME TypeOK, CallInFile, [Next]_vars, NEW c \in Healthy, ChildKeepsUp(c)
  PROVE  ChildKeepsUp(c)'
<1>0. c \in Children /\ c \in Int /\ at \in Int /\ NumChildren \in Int
  BY MultiAssumption DEF Children, TypeOK
<1>1. CASE Call
  BY <1>0, <1>1, MultiAssumption
     DEF Call, ChildKeepsUp, Has, Checkpointed, TypeOK, Children, Event
<1>2. CASE Returns
  <2>1. at > c
    BY <1>0, <1>2 DEF Returns, Children
  <2>2. CASE call = "send" /\ ok
    BY <1>2, <2>1, <2>2 DEF Returns, ChildKeepsUp, Has, Checkpointed, TypeOK, Event
  <2>3. CASE call = "flush" /\ ok
    <3>1. Checkpointed' \subseteq delivered[c]
      BY <1>2, <2>1, <2>3
         DEF Returns, ChildKeepsUp, Checkpointed, Events, TypeOK
    <3>. QED
      BY <1>2, <2>3, <3>1 DEF Returns, ChildKeepsUp
  <2>4. CASE ~ok
    BY <1>2, <2>4 DEF Returns, ChildKeepsUp, Checkpointed
  <2>. QED
    BY <1>2, <2>2, <2>3, <2>4 DEF Returns, TypeOK
<1>3. ASSUME NEW d \in Children, d # c,
             ChildTrue(d) \/ ChildFalse(d) \/ ChildRaises(d)
      PROVE  ChildKeepsUp(c)'
  <2>1. pending'[c] = pending[c] /\ delivered'[c] = delivered[c]
    BY <1>0, <1>3, AskedTypes, ChildTypes DEF ChildTrue, ChildFalse, ChildRaises
  <2>2. ChildTrue(d) \/ ChildFalse(d) => (at > c <=> at' > c)
    BY <1>0, <1>3 DEF ChildTrue, ChildFalse, Asked, Children
  <2>. QED
    BY <1>3, <2>1, <2>2
       DEF ChildTrue, ChildFalse, ChildRaises, ChildKeepsUp, Has, Checkpointed, Event
<1>4. CASE ChildTrue(c)
  <2>1. /\ pending[c] \union Handed \subseteq pending'[c] \union delivered'[c]
        /\ delivered[c] \subseteq delivered'[c]
        /\ call = "flush" => pending[c] \subseteq delivered'[c]
    BY <1>0, <1>4 DEF ChildTrue, Accepts, ChildBecomes, TypeOK
  <2>2. CASE call = "send"
    BY <1>4, <2>1, <2>2
       DEF ChildTrue, ChildKeepsUp, Has, Checkpointed, Event, Handed
  <2>3. CASE call = "flush"
    BY <1>4, <2>1, <2>3, MultiAssumption
       DEF ChildTrue, ChildKeepsUp, Has, Checkpointed, Event, CallInFile
  <2>. QED
    BY <1>4, <2>2, <2>3 DEF ChildTrue, Asked, TypeOK
<1>5. ~ChildFalse(c) /\ ~ChildRaises(c)
  BY MultiAssumption DEF ChildFalse, ChildRaises
<1>6. CASE UNCHANGED vars
  BY <1>6 DEF vars, ChildKeepsUp, Has, Checkpointed, Event
<1>. QED
  BY <1>1, <1>2, <1>3, <1>4, <1>5, <1>6 DEF Next

\* A child that never fails receives every checkpointed event, whatever the
\* other children do.
THEOREM HealthyComplete == Spec => []HealthyHasAll
<1>. DEFINE Inv == TypeOK /\ CallInFile /\ \A c \in Healthy : ChildKeepsUp(c)
<1>1. Init => Inv
  <2>. SUFFICES ASSUME Init, NEW c \in Healthy PROVE ChildKeepsUp(c)
    BY InitTypes
  <2>. QED
    BY MultiAssumption DEF Init, ChildKeepsUp, Checkpointed, Events
<1>2. Inv /\ [Next]_vars => Inv'
  BY StepTypes, StepKeepsUp
<1>3. Inv => HealthyHasAll
  BY DEF ChildKeepsUp, HealthyHasAll
<1>. QED
  BY <1>1, <1>2, <1>3, PTL DEF Spec
=============================================================================
