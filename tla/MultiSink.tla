------------------------------ MODULE MultiSink ------------------------------
(***************************************************************************)
(* sinks/multi_sink.py: every call is passed to every child in turn, and   *)
(* the answers are combined with any().  The caller is Pipeline._process_  *)
(* file: it sends the lines of a file one by one, flushes, and goes on to  *)
(* the next file; a False answer makes the next tick start the file again. *)
(*                                                                         *)
(* A child obeys SinkContract: a Buffered child (https, file) may keep     *)
(* what it accepted in memory until flush, the others write through and    *)
(* inherit Sink.flush, which always answers True.  A Healthy child never   *)
(* fails.  A Raising child may raise instead of answering, as FileSink     *)
(* does once it could not reopen its file after a rotation.                *)
(***************************************************************************)
EXTENDS Integers

CONSTANTS NumChildren, Buffered, Healthy, Raising, Files, Lines

Children == 1 .. NumChildren
Events   == (1 .. Files) \X (1 .. Lines)

ASSUME MultiAssumption ==
  /\ NumChildren \in Nat \ {0} /\ Files \in Nat /\ Lines \in Nat \ {0}
  /\ Buffered \subseteq Children /\ Healthy \subseteq Children
  /\ Raising \subseteq Children \ Healthy

VARIABLES
  pending, delivered,  \* of each child
  file, line,          \* what the caller sends next
  call,                \* "none", "send", "flush"
  at,                  \* the child whose turn it is
  ok                   \* any() of the answers so far

vars == <<pending, delivered, file, line, call, at, ok>>

Init ==
  /\ pending = [c \in Children |-> {}] /\ delivered = pending
  /\ file = 1 /\ line = 1 /\ call = "none" /\ at = 1 /\ ok = FALSE

Event == <<file, line>>
Handed == IF call = "send" THEN {Event} ELSE {}

\* Child c now keeps P in memory, and D has reached its destination.
ChildBecomes(c, P, D) ==
  /\ pending' = [pending EXCEPT ![c] = P]
  /\ delivered' = [delivered EXCEPT ![c] = @ \union D]

\* SinkContract!SendOk, FlushOk and CallFails of one child.
Accepts(c) ==
  \E P \in IF c \in Buffered /\ call = "send"
           THEN {pending[c] \union Handed, Handed, {}} ELSE {{}} :
    ChildBecomes(c, P, (pending[c] \union Handed) \ P)

Refuses(c) ==
  \E P \in SUBSET (IF c \in Buffered THEN pending[c] \union Handed ELSE {}),
     D \in SUBSET (pending[c] \union Handed) :
    ChildBecomes(c, P, D)

Call ==
  /\ call = "none" /\ file <= Files
  /\ call' = IF line <= Lines THEN "send" ELSE "flush"
  /\ at' = 1 /\ ok' = FALSE
  /\ UNCHANGED <<pending, delivered, file, line>>

Asked(c) == call # "none" /\ at = c

\* Mutant of ChildTrue: any() over a generator stops at the first True.
ChildTrueEndsRound(c) ==
  /\ Asked(c)
  /\ Accepts(c)
  /\ at' = NumChildren + 1 /\ ok' = TRUE
  /\ UNCHANGED <<file, line, call>>

ChildTrue(c) ==
  /\ Asked(c)
  /\ Accepts(c)
  /\ at' = c + 1 /\ ok' = TRUE
  /\ UNCHANGED <<file, line, call>>

\* Mutant of ChildFalse: a False ends the call.
ChildFalseEndsCall(c) ==
  /\ Asked(c) /\ c \notin Healthy
  /\ call = "flush" => c \in Buffered
  /\ Refuses(c)
  /\ call' = "none" /\ line' = 1
  /\ UNCHANGED <<file, at, ok>>

\* The inherited Sink.flush cannot fail.
ChildFalse(c) ==
  /\ Asked(c) /\ c \notin Healthy
  /\ call = "flush" => c \in Buffered
  /\ Refuses(c)
  /\ at' = c + 1
  /\ UNCHANGED <<file, line, call, ok>>

\* The exception leaves MultiSink.send and _process_file: "tick aborted".
ChildRaises(c) ==
  /\ Asked(c) /\ c \in Raising /\ call = "send"
  /\ Refuses(c)
  /\ call' = "none" /\ line' = 1
  /\ UNCHANGED <<file, at, ok>>

\* Mutant of Returns: the next file starts at the line where this one ended.
ReturnsLineKept ==
  /\ call # "none" /\ at > NumChildren
  /\ call' = "none"
  /\ line' = IF ok THEN line + 1 ELSE 1
  /\ file' = IF ok /\ call = "flush" THEN file + 1 ELSE file
  /\ UNCHANGED <<pending, delivered, at, ok>>

\* The answer goes to _process_file.
Returns ==
  /\ call # "none" /\ at > NumChildren
  /\ call' = "none"
  /\ line' = IF ok /\ call = "send" THEN line + 1 ELSE 1
  /\ file' = IF ok /\ call = "flush" THEN file + 1 ELSE file
  /\ UNCHANGED <<pending, delivered, at, ok>>

Next ==
  \/ Call \/ Returns
  \/ \E c \in Children : ChildTrue(c) \/ ChildFalse(c) \/ ChildRaises(c)

Spec == Init /\ [][Next]_vars
FairSpec == Spec /\ WF_vars(Next)
-----------------------------------------------------------------------------
TypeOK ==
  /\ pending \in [Children -> SUBSET Events]
  /\ delivered \in [Children -> SUBSET Events]
  /\ file \in 1 .. Files + 1 /\ line \in 1 .. Lines + 1
  /\ call \in {"none", "send", "flush"} /\ at \in 1 .. NumChildren + 1
  /\ ok \in BOOLEAN

Checkpointed == {e \in Events : e[1] < file}

\* A child that never fails receives every checkpointed event, whatever the
\* others do (MultiSink.send passes the event to all of them).
HealthyHasAll == \A c \in Healthy : Checkpointed \subseteq delivered[c]

\* "A temporary SIEM outage does not block local file writes and vice-versa"
\* (multi_sink.py:3-4): one healthy child is enough to get through all files,
\* unless another one raises again and again.
HealthyChildSuffices ==
  \/ <>(file > Files)
  \/ []<><<\E c \in Children : ChildRaises(c)>>_vars
=============================================================================
