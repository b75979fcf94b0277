------------------------------- MODULE Register -------------------------------
(***************************************************************************)
(* What Pipeline assumes of the checkpoint store: each pipeline has a      *)
(* register of its own, which changes in one step.  A position is the      *)
(* number of objects the checkpoint has gone past, and done counts the     *)
(* objects its owner is done with: those it processed, and those it left   *)
(* behind when it began anew, at a position of the clock (now - lookback). *)
(***************************************************************************)
EXTENDS Integers

CONSTANTS Owners, Missing, Corrupt

VARIABLES
  reg, done,
  renewing,  \* the owners about to begin anew
  errors     \* calls that have failed

RegisterInit ==
  /\ reg = [p \in Owners |-> Missing] /\ done = [p \in Owners |-> 0]
  /\ renewing = {} /\ errors = 0

Later(m, n) == IF m < n THEN n ELSE m

KeepsOthers(p) == \A q \in Owners \ {p} : reg'[q] = reg[q] /\ done'[q] = done[q]

\* The owner has processed one more object; without a register to start from it may
\* have left others behind.
Process(p) ==
  /\ done'[p] \in Nat /\ done'[p] > done[p]
  /\ reg[p] \in Nat => done'[p] = done[p] + 1
  /\ KeepsOthers(p)
  /\ UNCHANGED <<reg, renewing>>

\* A tick advances the register by one object; if the register is gone meanwhile, it
\* is written anew.
Save(p) ==
  /\ p \notin renewing
  /\ reg'[p] \in Nat /\ reg'[p] <= done[p]
  /\ reg[p] \in Nat => reg'[p] = reg[p] + 1
  /\ KeepsOthers(p)
  /\ UNCHANGED <<done, renewing>>

\* Only what cannot be read, or what a call just failed to read, is begun anew.
Begin(p) ==
  /\ reg[p] \notin Nat \/ errors' > errors
  /\ renewing' = renewing \union {p}
  /\ UNCHANGED <<reg, done>>

\* The new position may be before the old one, or past objects not processed.
Renew(p) ==
  /\ p \in renewing /\ renewing' = renewing \ {p}
  /\ reg'[p] \in Nat /\ done'[p] = Later(done[p], reg'[p])
  /\ KeepsOthers(p)

GiveUp(p) == renewing' = renewing \ {p} /\ UNCHANGED <<reg, done>>

Crash == renewing' = {} /\ UNCHANGED <<reg, done>>

\* A register is damaged or removed from outside.
Damage(p) ==
  /\ reg'[p] \in {Missing, Corrupt}
  /\ KeepsOthers(p)
  /\ UNCHANGED <<done, renewing>>

\* A power failure: positions may be others that were saved, or not be readable.
PowerFails ==
  /\ \A p \in Owners :
       \/ reg'[p] \in {reg[p], Missing, Corrupt}
       \/ reg'[p] \in Nat /\ reg[p] \in Nat /\ reg'[p] <= done[p]
  /\ renewing' = {} /\ UNCHANGED done

RegisterNext ==
  \/ Crash \/ PowerFails
  \/ \E p \in Owners : \/ Process(p) \/ Save(p) \/ Begin(p) \/ Renew(p)
                       \/ GiveUp(p) \/ Damage(p)

IsRegister == RegisterInit /\ [][RegisterNext]_<<reg, done, renewing>>
=============================================================================
